---- MODULE Spec2Model ----
(***************************************************************************)
(* A model of prodvsprod.py, the production-dump comparison pipeline:      *)
(* main() is cut into its stages (resolve, prepare, validate, external     *)
(* compare, diff, spreadsheets, beautify, detail page, master database,    *)
(* master page, success mail, pointer update), each stage one action.      *)
(* The persisted stores are the pointer file lastdumpcomp.date and the     *)
(* historical index reports.json.                                          *)
(***************************************************************************)
EXTENDS Integers, Sequences, FiniteSets, TLC

(***************************************************************************)
(* Bounds of the model.                                                    *)
(***************************************************************************)
MaxRuns == 2
MaxDay == 2
MaxFiles == 2
MaxCalls == 3

(***************************************************************************)
(* Dump folder names.  TLC cannot look inside a string, so the match of    *)
(* DATE_TOKEN_RE on each name of the universe is tabulated: the three      *)
(* groups (day digits, month letters lower-cased, year digits), or no      *)
(* match.                                                                  *)
(***************************************************************************)
NL == "\n"

DumpNames ==
  { "prod_62.0_1stJan2025", "prod_62.0_4thSept2025",
    "prod_63.0_4thSep2025", "scratch" }

DATE_TOKEN_RE(name) ==
  CASE name = "prod_62.0_1stJan2025"  -> [ok |-> TRUE, day |-> 1, mon |-> "jan", year |-> 2025]
    [] name = "prod_62.0_4thSept2025" -> [ok |-> TRUE, day |-> 4, mon |-> "sept", year |-> 2025]
    [] name = "prod_63.0_4thSep2025"  -> [ok |-> TRUE, day |-> 4, mon |-> "sep", year |-> 2025]
    [] OTHER                          -> [ok |-> FALSE, day |-> 0, mon |-> "", year |-> 0]

\* the month keys in the order the loop tries them; "sep" and "sept" both
\* normalise to "sept", the ninth entry of the table
MonthKeys == <<"sept", "sep", "jan", "feb", "mar", "apr", "may", "jun", "jul", "aug", "oct", "nov", "dec">>
MonthTable == <<"jan", "feb", "mar", "apr", "may", "jun", "jul", "aug", "sept", "oct", "nov", "dec">>

\* mon_token.startswith(key), tabulated for the month tokens of the universe
StartsWith(tok, key) ==
  \/ tok = key
  \/ tok = "sept" /\ key = "sep"

TableIndex(norm) == CHOOSE i \in 1..Len(MonthTable) : MonthTable[i] = norm

MonthOf(tok) ==
  LET hits == { i \in 1..Len(MonthKeys) : StartsWith(tok, MonthKeys[i]) }
  IN IF hits = {} THEN 0
     ELSE LET first == CHOOSE i \in hits : \A j \in hits : i <= j
              key == MonthKeys[first]
              norm == IF key \in {"sept", "sep"} THEN "sept" ELSE key
          IN TableIndex(norm)

IsLeap(y) == (y % 4 = 0 /\ y % 100 # 0) \/ y % 400 = 0

DaysInMonth(y, m) ==
  IF m = 2 THEN (IF IsLeap(y) THEN 29 ELSE 28)
  ELSE IF m \in {4, 6, 9, 11} THEN 30 ELSE 31

\* None is modelled as 0; a date as the number year*10000 + month*100 + day,
\* which orders dates as datetime.date orders them
None == 0

parse_dump_date_token(name) ==
  LET m == DATE_TOKEN_RE(name)
  IN IF ~m.ok THEN None
     ELSE LET month == MonthOf(m.mon)
          IN IF month = 0 THEN None
             ELSE IF m.year < 1 \/ m.day < 1 \/ m.day > DaysInMonth(m.year, month) THEN None
             ELSE m.year * 10000 + month * 100 + m.day

\* the folders find_latest_dump_by_name may return: the sort is stable over
\* iterdir's order, which is arbitrary, so any folder of maximal date
Dated(root) == { p \in root : parse_dump_date_token(p) # None }

\* a variant that takes any dated folder
find_any_dated(root) == Dated(root)

\* a variant that sorts the dated folders the other way round
find_earliest_dump_by_name(root) ==
  { p \in Dated(root) :
      \A q \in Dated(root) : parse_dump_date_token(p) <= parse_dump_date_token(q) }

find_latest_dump_by_name(root) ==
  { p \in Dated(root) :
      \A q \in Dated(root) : parse_dump_date_token(q) <= parse_dump_date_token(p) }

\* the folder that comes out first of the sort of line 142 for a root as it
\* is listed: "" when no folder is dated
listed_first(root) ==
  IF find_latest_dump_by_name(root) = {} THEN {""} ELSE find_latest_dump_by_name(root)

\* pretty_label / title_from_names: the displayed form is a function of the
\* parsed date when there is one, of the raw name otherwise
pretty_label(n) ==
  LET d == parse_dump_date_token(n)
  IN IF d # None THEN [date |-> d, raw |-> ""] ELSE [date |-> None, raw |-> n]

title_from_names(o, n) ==
  IF parse_dump_date_token(o) # None /\ parse_dump_date_token(n) # None
  THEN [old |-> pretty_label(o), new |-> pretty_label(n)]
  ELSE [old |-> [date |-> None, raw |-> o], new |-> [date |-> None, raw |-> n]]

(***************************************************************************)
(* The pointer file: its text as a sequence of tokens, a folder name or a  *)
(* newline.  read_text gives "" for a missing file; strip drops the        *)
(* whitespace at both ends.                                                *)
(***************************************************************************)
RECURSIVE lstrip(_)
lstrip(s) == IF s # <<>> /\ Head(s) = NL THEN lstrip(Tail(s)) ELSE s

RECURSIVE rstrip(_)
rstrip(s) == IF s # <<>> /\ s[Len(s)] = NL THEN rstrip(SubSeq(s, 1, Len(s) - 1)) ELSE s

strip(s) == rstrip(lstrip(s))

\* a variant that takes the text as it is in the file
NameOf_unstripped(s) == IF s = <<>> THEN "" ELSE s[1]

\* the stripped text as one name: "" when nothing is left
NameOf(s) == IF strip(s) = <<>> THEN "" ELSE strip(s)[1]

(***************************************************************************)
(* Relative paths are sequences of parts (pathlib's Path.parts).  Paths    *)
(* are ordered as pathlib orders them: part by part, each part by its      *)
(* characters' code points, which are tabulated for the part names used.   *)
(***************************************************************************)
Cats == {"classes", "objects", "triggers", "pages"}

RelPaths ==
  { <<"classes", "Foo.cls">>, <<"classes", "Bar.cls">>, <<"objects", "Acct.object">>,
    <<"classes.txt">> }

Chars(seg) ==
  CASE seg = "classes" -> <<99, 108, 97, 115, 115, 101, 115>>
    [] seg = "objects" -> <<111, 98, 106, 101, 99, 116, 115>>
    [] seg = "triggers" -> <<116, 114, 105, 103, 103, 101, 114, 115>>
    [] seg = "pages" -> <<112, 97, 103, 101, 115>>
    [] seg = "Foo.cls" -> <<70, 111, 111, 46, 99, 108, 115>>
    [] seg = "Bar.cls" -> <<66, 97, 114, 46, 99, 108, 115>>
    [] seg = "Acct.object" -> <<65, 99, 99, 116, 46, 111, 98, 106, 101, 99, 116>>
    [] seg = "README.md" -> <<82, 69, 65, 68, 77, 69, 46, 109, 100>>
    [] seg = "classes.txt" -> <<99, 108, 97, 115, 115, 101, 115, 46, 116, 120, 116>>
    [] OTHER -> <<>>

RECURSIVE StrLess(_, _)
StrLess(a, b) ==
  IF a = <<>> THEN b # <<>>
  ELSE IF b = <<>> THEN FALSE
  ELSE IF Head(a) < Head(b) THEN TRUE
  ELSE IF Head(a) > Head(b) THEN FALSE
  ELSE StrLess(Tail(a), Tail(b))

RECURSIVE PathLess(_, _)
PathLess(p, q) ==
  IF p = <<>> THEN q # <<>>
  ELSE IF q = <<>> THEN FALSE
  ELSE IF StrLess(Chars(Head(p)), Chars(Head(q))) THEN TRUE
  ELSE IF StrLess(Chars(Head(q)), Chars(Head(p))) THEN FALSE
  ELSE PathLess(Tail(p), Tail(q))

\* str(r), line 582: the segments joined by "/"
RECURSIVE StrOf(_)
StrOf(p) ==
  IF Len(p) <= 1 THEN (IF p = <<>> THEN <<>> ELSE Chars(p[1]))
  ELSE Chars(p[1]) \o <<47>> \o StrOf(Tail(p))

\* a variant that sorts the paths the other way round
RECURSIVE sorted_desc(_)
sorted_desc(S) ==
  IF S = {} THEN <<>>
  ELSE LET m == CHOOSE x \in S : \A y \in S : x = y \/ PathLess(y, x)
       IN <<m>> \o sorted_desc(S \ {m})

\* sorted(S) for a set of paths
RECURSIVE sorted(_)
sorted(S) ==
  IF S = {} THEN <<>>
  ELSE LET m == CHOOSE x \in S : \A y \in S : x = y \/ PathLess(x, y)
       IN <<m>> \o sorted(S \ {m})

Range(s) == { s[i] : i \in 1..Len(s) }

(***************************************************************************)
(* Files and trees.  A file's content is a sequence of bytes; ok = FALSE   *)
(* is a file that cannot be read any more when the diff reaches it (its    *)
(* stat raises).  A tree is a dump folder or its working copy: its         *)
(* top-level directories and its files by relative path.                   *)
(***************************************************************************)
Contents == { <<1>>, <<2>>, <<1, 1>> }

Entries == { [data |-> c, ok |-> TRUE] : c \in Contents } \cup { [data |-> <<1>>, ok |-> FALSE] }

st_size(e) == Len(e.data)

\* sha256 as a digest number of the bytes (bijective base-2 numeration over
\* the bytes 1 and 2): no two contents of the model share a digest, which
\* is what collision resistance gives the program
RECURSIVE sha256(_)
sha256(data) ==
  IF data = <<>> THEN 0 ELSE data[Len(data)] + 2 * sha256(SubSeq(data, 1, Len(data) - 1))

FileMaps ==
  UNION { [D -> Entries] : D \in { S \in SUBSET RelPaths : Cardinality(S) <= MaxFiles } }

\* the directories a file map needs at top level
DirsOf(files) == { p[1] : p \in { q \in DOMAIN files : Len(q) > 1 } }

EmptyTree == [dirs |-> {}, files |-> <<>>]

top_level_dirs(tree) == tree.dirs

\* os.walk is top-down: the files of the root come first, then each
\* directory's files together; the order within is the listing's
walk_files(tree) ==
  LET D == DOMAIN tree.files
      n == Cardinality(D)
  IN { s \in [1..n -> D] :
         /\ \A i, j \in 1..n : i # j => s[i] # s[j]
         /\ \A i, j \in 1..n : (i < j /\ Len(s[j]) = 1) => Len(s[i]) = 1
         /\ \A i, j, k \in 1..n :
              (i < j /\ j < k /\ Len(s[i]) > 1 /\ Len(s[k]) > 1 /\ s[i][1] = s[k][1])
                => (Len(s[j]) > 1 /\ s[j][1] = s[i][1]) }

\* a variant that keeps every path of the walk
SelectAll(order, S) == order

SelectNotIn(order, S) == SelectSeq(order, LAMBDA r : r \notin S)

\* a variant that trusts the size alone
SameSize(a, b) == st_size(a) = st_size(b)

\* line 555: the two files count as the same
SameFile(a, b) == st_size(a) = st_size(b) /\ sha256(a.data) = sha256(b.data)

Common(prev, latest) == DOMAIN prev.files \cap DOMAIN latest.files

\* a stat or read that raises is not caught: the run dies in the loop
DiffRaises(prev, latest) ==
  \E r \in Common(prev, latest) : ~prev.files[r].ok \/ ~latest.files[r].ok

\* a variant that lists every common path as changed
changed_all(prev, latest) == sorted(Common(prev, latest))

changed_of(prev, latest) ==
  SelectSeq(sorted(Common(prev, latest)),
            LAMBDA r : ~SameFile(prev.files[r], latest.files[r]))

top_folder(rel) == IF Len(rel) > 0 THEN rel[1] ELSE "(root)"

\* a variant that only records which folders occur
Counter_presence(rels) == [ k \in { top_folder(rels[i]) : i \in 1..Len(rels) } |-> 1 ]

\* Counter(top_folder(r) for r in rels)
Counter(rels) ==
  [ k \in { top_folder(rels[i]) : i \in 1..Len(rels) } |->
      Cardinality({ i \in 1..Len(rels) : top_folder(rels[i]) = k }) ]

(***************************************************************************)
(* The trees a run of the pipeline meets as the contents of the two dump   *)
(* folders when it copies them.                                            *)
(***************************************************************************)
Foo == <<"classes", "Foo.cls">>
Acct == <<"objects", "Acct.object">>
Readme == <<"README.md">>

File(c) == [data |-> c, ok |-> TRUE]
Unreadable == [data |-> <<1>>, ok |-> FALSE]

RunTrees ==
  { [dirs |-> {"classes", "objects"},
     files |-> (Foo :> File(<<1>>)) @@ (Acct :> File(<<1>>))],
    [dirs |-> {"classes", "objects"},
     files |-> (Foo :> File(<<2>>)) @@ (Readme :> File(<<1>>))],
    [dirs |-> {"classes", "objects", "triggers"},
     files |-> (Foo :> File(<<1, 1>>)) @@ (Acct :> File(<<1>>))],
    [dirs |-> {"classes", "objects", "triggers"},
     files |-> (Foo :> Unreadable)] }

\* the values of current_sfdc_metadata_list_used_in_cadence the model tries
ReqLists == { <<>>, <<"classes", "triggers">> }

(***************************************************************************)
(* reports.json.  Its text is absent, not JSON ("corrupt"), JSON that is   *)
(* no list ("notlist"), or a list of records.  A record's runDate is the   *)
(* day number (ISO dates sort as days do); its detailHref and compareHref  *)
(* are the run folder they point into.                                     *)
(***************************************************************************)
api_of(name) ==
  CASE name \in {"prod_62.0_1stJan2025", "prod_62.0_4thSept2025"} -> "62.0"
    [] name = "prod_63.0_4thSep2025" -> "63.0"
    [] OTHER -> "fallback"

\* a variant whose detail link also tells the new dump
entry_per_dump(d, o, n) ==
  [ runDate |-> d, apiVersion |-> api_of(n), title |-> title_from_names(o, n),
    oldDumpLabel |-> pretty_label(o), newDumpLabel |-> pretty_label(n),
    detailHref |-> d + 10 * (IF n = "prod_62.0_1stJan2025" THEN 1
                              ELSE IF n = "prod_62.0_4thSept2025" THEN 2 ELSE 3),
    compareHref |-> d ]

entry_of(d, o, n) ==
  [ runDate |-> d, apiVersion |-> api_of(n), title |-> title_from_names(o, n),
    oldDumpLabel |-> pretty_label(o), newDumpLabel |-> pretty_label(n),
    detailHref |-> d, compareHref |-> d ]

ReportsFile(k, rs) == [kind |-> k, recs |-> rs]

\* records a hand edit of the file can leave: a second record for a run
\* folder, records out of date order, a record dated after the run folder
\* it points into
ManualDup ==
  [entry_of(1, "scratch", "prod_62.0_1stJan2025") EXCEPT !.detailHref = 2]

ManualLate ==
  [entry_of(2, "scratch", "prod_62.0_1stJan2025") EXCEPT !.detailHref = 1]

InitialReports ==
  { ReportsFile("absent", <<>>), ReportsFile("corrupt", <<>>), ReportsFile("notlist", <<>>),
    ReportsFile("list", <<entry_of(2, "scratch", "prod_62.0_1stJan2025"), ManualDup>>),
    ReportsFile("list", <<ManualLate>>) }

\* a variant that takes the last of the records of equal runDate first
RECURSIVE sort_last_first(_)
sort_last_first(rs) ==
  IF rs = <<>> THEN <<>>
  ELSE LET i == CHOOSE k \in 1..Len(rs) :
                  /\ \A j \in 1..Len(rs) : rs[k].runDate <= rs[j].runDate
                  /\ \A j \in (k + 1)..Len(rs) : rs[j].runDate # rs[k].runDate
       IN <<rs[i]>> \o sort_last_first(SubSeq(rs, 1, i - 1) \o SubSeq(rs, i + 1, Len(rs)))

\* sorted(existing, key=runDate): stable
RECURSIVE sort_by_runDate(_)
sort_by_runDate(rs) ==
  IF rs = <<>> THEN <<>>
  ELSE LET i == CHOOSE k \in 1..Len(rs) :
                  /\ \A j \in 1..Len(rs) : rs[k].runDate <= rs[j].runDate
                  /\ \A j \in 1..(k - 1) : rs[j].runDate # rs[k].runDate
       IN <<rs[i]>> \o sort_by_runDate(SubSeq(rs, 1, i - 1) \o SubSeq(rs, i + 1, Len(rs)))

\* a variant that keeps every record
dedup_none(rs, seen) == rs

\* lines 682-685: keep the first record of each detailHref
RECURSIVE dedup(_, _)
dedup(rs, seen) ==
  IF rs = <<>> THEN <<>>
  ELSE IF Head(rs).detailHref \in seen THEN dedup(Tail(rs), seen)
  ELSE <<Head(rs)>> \o dedup(Tail(rs), seen \cup {Head(rs).detailHref})

\* lines 664-666: what json.loads of the file leaves in existing
existing_of(db) == IF db.kind = "list" THEN db.recs ELSE <<>>

\* a variant that forgets the run's record
merged_existing_only(existing, entry) == dedup(sort_by_runDate(existing), {})

\* a variant that puts the run's record before the existing ones
merged_entry_first(existing, entry) == dedup(sort_by_runDate(<<entry>> \o existing), {})

\* lines 681-685
merged_of(existing, entry) == dedup(sort_by_runDate(Append(existing, entry)), {})

(***************************************************************************)
(* The state.                                                              *)
(*   lastdump   the text of the pointer file lastdumpcomp.date             *)
(*   dumps      the folders under the dumps root                           *)
(*   reports    reports.json                                               *)
(*   master     the master page work/index.html                            *)
(*   rundirs    the dated run folders under the work root                  *)
(*   artifacts  the files and folders inside the run folders               *)
(*   compare_script  whether codecompare.posix2.sh is installed and        *)
(*              writes its codecomp.html (the environment; never changed)  *)
(*   today      the calendar day the clock shows                           *)
(*   nruns      how many times main() was started                          *)
(*   pc         where main() stands; exitcode, outcome: how it ended       *)
(*   mails      the calls of send_mail of the current run                  *)
(*   loc        the local variables of main()                              *)
(*   at_start   the stores as main() found them (history)                  *)
(*   rewritten  whether the pipeline has written reports.json (history)    *)
(***************************************************************************)
VARIABLES lastdump, dumps, reports, master, rundirs, artifacts, compare_script,
          today, nruns, pc, exitcode, outcome, mails, loc, at_start, rewritten,
          iterdir_first

vars == <<lastdump, dumps, reports, master, rundirs, artifacts, compare_script,
          today, nruns, pc, exitcode, outcome, mails, loc, at_start, rewritten, iterdir_first>>

Loc0 ==
  [ cfg |-> FALSE, req |-> <<>>, old_name |-> "", new_name |-> "", day |-> 0,
    prev_dir |-> EmptyTree, latest_dir |-> EmptyTree,
    tl_prev |-> {}, tl_new |-> {},
    new_rel |-> <<>>, removed_rel |-> <<>>, changed_rel |-> <<>>, diffed |-> FALSE,
    cnt_new |-> <<>>, cnt_chg |-> <<>>, cnt_rm |-> <<>>,
    token |-> 0, rows_full |-> <<>>, rows_chg |-> <<>>, rows_new |-> <<>>, rows_rm |-> <<>>,
    merged |-> <<>> ]

Mail(subj) == [subj |-> subj, prev |-> {}, latest |-> {}, miss_prev |-> <<>>, miss_new |-> <<>>]

Art(d, n, t) == [dir |-> d, name |-> n, token |-> t]

Stores == [lastdump |-> lastdump, reports |-> reports, master |-> master,
           rundirs |-> rundirs, artifacts |-> artifacts]

InitialPointers == {"prod_62.0_1stJan2025", "scratch"}

InitialDumps ==
  { {"scratch"}, {"prod_62.0_1stJan2025"} }

Init ==
  /\ lastdump \in {<<>>, <<NL>>} \cup { <<n, NL>> : n \in InitialPointers }
  /\ dumps \in InitialDumps
  /\ iterdir_first \in listed_first(dumps)
  /\ reports \in InitialReports
  /\ master = [exists |-> FALSE, cards |-> <<>>]
  /\ rundirs = {}
  /\ artifacts = {}
  /\ compare_script \in BOOLEAN
  /\ today = 1
  /\ nruns = 0
  /\ pc = "idle"
  /\ exitcode = -1
  /\ outcome = "idle"
  /\ mails = <<>>
  /\ loc = Loc0
  /\ at_start = Stores
  /\ rewritten = FALSE

\* what is kept of main()'s locals once the process has ended, as history:
\* the configuration, the two names, the day and the validator's inputs
Ended(l) ==
  [Loc0 EXCEPT !.cfg = l.cfg, !.req = l.req, !.old_name = l.old_name, !.new_name = l.new_name,
               !.day = l.day, !.tl_prev = l.tl_prev, !.tl_new = l.tl_new,
               !.diffed = l.diffed, !.token = l.token]

\* the exit code of each way main() ends: the sys.exit calls of lines 387,
\* 464, 468, 516, 527, 397 and 417; sys.exit(message) at lines 33, 141, 628
\* and 691 and an uncaught exception both give 1; returning from main() 0
\* a variant in which both validator failures exit with 2
exit_code_flat(how) ==
  CASE how = "success" -> 0
    [] how = "no_new_dump" -> 0
    [] how = "config" -> 1
    [] how = "mismatch" -> 2
    [] how = "missing_required" -> 2
    [] how = "xlsx" -> 6
    [] how = "template" -> 1
    [] how = "crash" -> 1

exit_code(how) ==
  CASE how = "success" -> 0
    [] how = "no_new_dump" -> 0
    [] how = "config" -> 1
    [] how = "mismatch" -> 2
    [] how = "missing_required" -> 3
    [] how = "xlsx" -> 6
    [] how = "template" -> 1
    [] how = "crash" -> 1

\* a variant that writes the folder's full path to the pointer file
pointer_text_path(new_name) == <<"/backup/PROD_DUMP/", new_name, NL>>

\* line 709: the text written to the pointer file
pointer_text(new_name) == <<new_name, NL>>

\* the process ends, with the locals as they stand
Exit(how, l) ==
  /\ pc' = "exited"
  /\ exitcode' = exit_code(how)
  /\ outcome' = how
  /\ loc' = Ended(l)

Goto(stage) ==
  /\ pc' = stage
  /\ UNCHANGED <<exitcode, outcome>>

\* abort_if_same_dump, line 378: the two folders have the same name
\* a variant that compares the pointer's unstripped text with the folder name
same_dump_unstripped(old_src, new_src) == <<old_src, NL>> = <<new_src>>

same_dump(old_src, new_src) == old_src = new_src

(***************************************************************************)
(* main(), lines 439-474: load the configuration, read the pointer, find   *)
(* the latest dump, stop when there is no new dump.  The inputs are the    *)
(* dumps taken since the last run, whether setup.conf exists and the       *)
(* required-metadata list it holds.                                        *)
(***************************************************************************)
resolve_dumps ==
  /\ pc \in {"idle", "exited"}
  /\ nruns < MaxRuns
  /\ nruns' = nruns + 1
  /\ at_start' = Stores
  /\ UNCHANGED <<lastdump, reports, master, rundirs, artifacts, compare_script, today, rewritten>>
  /\ \E added \in { S \in SUBSET (DumpNames \ dumps) : Cardinality(S) <= 1 },
        cfgOk \in BOOLEAN, r \in ReqLists :
      \E new_src \in listed_first(dumps \cup added) :
       LET root == dumps \cup added
           old_name == NameOf(lastdump)
           l0 == [Loc0 EXCEPT !.cfg = TRUE, !.req = r, !.old_name = old_name]
       IN /\ dumps' = root
          /\ added = {} => new_src = iterdir_first
          /\ iterdir_first' = new_src
          /\ IF ~cfgOk
             THEN /\ r = <<>>
                  /\ mails' = <<>> /\ Exit("config", Loc0)
             ELSE IF old_name = ""
             THEN /\ mails' = <<Mail("[ProdvsProd] lastdumpcomp.date is empty")>>
                  /\ Exit("config", l0)
             ELSE IF old_name \notin root
             THEN /\ mails' = <<Mail("[ProdvsProd] previous dump missing")>>
                  /\ Exit("config", l0)
             ELSE IF Dated(root) = {}
             THEN /\ mails' = <<>> /\ Exit("config", l0)
             ELSE   IF same_dump(old_name, new_src)
                    THEN /\ mails' = <<Mail("[ProdvsProd] No new dump taken")>>
                         /\ Exit("no_new_dump", [l0 EXCEPT !.new_name = new_src])
                    ELSE /\ loc' = [l0 EXCEPT !.new_name = new_src]
                         /\ mails' = <<>>
                         /\ pc' = "prepare" /\ exitcode' = -1 /\ outcome' = "running"

(***************************************************************************)
(* lines 476-507: the title, the dated run folder, run.log, and the two    *)
(* working copies.  The inputs are the day the clock shows and what the    *)
(* two dump folders hold.                                                  *)
(***************************************************************************)
\* a variant that makes the compare output folder with the run folder
prepare_run_with_compare_dir ==
  /\ pc = "prepare"
  /\ \E d \in today..MaxDay, p \in RunTrees, l \in RunTrees :
       /\ today' = d
       /\ rundirs' = rundirs \cup {d}
       /\ artifacts' = artifacts \cup {Art(d, "codecomp/", 0)}
       /\ loc' = [loc EXCEPT !.day = d, !.prev_dir = p, !.latest_dir = l]
  /\ Goto("validate")
  /\ UNCHANGED <<lastdump, dumps, iterdir_first, reports, master, compare_script, nruns, mails, at_start, rewritten>>

prepare_run ==
  /\ pc = "prepare"
  /\ \E d \in today..MaxDay, p \in RunTrees, l \in RunTrees :
       /\ today' = d
       /\ rundirs' = rundirs \cup {d}
       /\ loc' = [loc EXCEPT !.day = d, !.prev_dir = p, !.latest_dir = l]
  /\ Goto("validate")
  /\ UNCHANGED <<lastdump, dumps, iterdir_first, reports, master, artifacts, compare_script, nruns, mails, at_start, rewritten>>

(***************************************************************************)
(* lines 509-527: parity of the top-level folders, then the required       *)
(* metadata.                                                               *)
(***************************************************************************)
missing_in(req, tl) == SelectSeq(req, LAMBDA m : m \notin tl)

\* a variant without the required-metadata check
validate_no_required(tl_prev, tl_new, req) ==
  IF tl_prev # tl_new THEN "mismatch" ELSE "ok"

\* a variant that accepts a latest dump with more folders than the previous
validate_subset(tl_prev, tl_new, req) ==
  IF ~(tl_prev \subseteq tl_new) THEN "mismatch"
  ELSE IF req # <<>> /\ (missing_in(req, tl_prev) # <<>> \/ missing_in(req, tl_new) # <<>>)
  THEN "missing_required"
  ELSE "ok"

\* the verdict of lines 512-527
validate(tl_prev, tl_new, req) ==
  IF tl_prev # tl_new THEN "mismatch"
  ELSE IF req # <<>> /\ (missing_in(req, tl_prev) # <<>> \/ missing_in(req, tl_new) # <<>>)
  THEN "missing_required"
  ELSE "ok"

validate_dumps ==
  /\ pc = "validate"
  /\ LET tl_prev == top_level_dirs(loc.prev_dir)
         tl_new == top_level_dirs(loc.latest_dir)
         v == validate(tl_prev, tl_new, loc.req)
         l1 == [loc EXCEPT !.tl_prev = tl_prev, !.tl_new = tl_new]
     IN IF v = "mismatch"
        THEN /\ mails' = Append(mails, [Mail("[ProdvsProd] Folder name mismatch")
                                          EXCEPT !.prev = tl_prev, !.latest = tl_new])
             /\ Exit("mismatch", l1)
        ELSE IF v = "missing_required"
        THEN /\ mails' = Append(mails, [Mail("[ProdvsProd] Required metadata missing in dumps")
                                          EXCEPT !.miss_prev = missing_in(loc.req, tl_prev),
                                                 !.miss_new = missing_in(loc.req, tl_new)])
             /\ Exit("missing_required", l1)
        ELSE /\ loc' = l1
             /\ mails' = mails
             /\ Goto("compare")
  /\ UNCHANGED <<lastdump, dumps, iterdir_first, reports, master, rundirs, artifacts, compare_script, today, nruns, at_start, rewritten>>

(***************************************************************************)
(* lines 529-545: component.list (outside the modelled stores), the        *)
(* compare output folder, and the optional external compare script, which  *)
(* leaves a raw codecomp.html there when it is installed.                  *)
(***************************************************************************)
external_compare ==
  /\ pc = "compare"
  /\ artifacts' = artifacts \cup {Art(loc.day, "codecomp/", 0)}
       \cup (IF compare_script THEN {Art(loc.day, "codecomp/codecomp.html", 0)} ELSE {})
  /\ Goto("diff")
  /\ UNCHANGED <<lastdump, dumps, iterdir_first, reports, master, rundirs, compare_script, today, nruns, mails, loc, at_start, rewritten>>

(***************************************************************************)
(* lines 547-564: the diff and the per-folder counts.  The inputs are the  *)
(* orders in which the two walks list the files (prev_files and            *)
(* latest_files are not read again after line 557 and are not kept).       *)
(***************************************************************************)
compute_diffs ==
  /\ pc = "diff"
  /\ \E prev_files \in walk_files(loc.prev_dir), latest_files \in walk_files(loc.latest_dir) :
       LET new_rel == SelectNotIn(latest_files, DOMAIN loc.prev_dir.files)
           removed_rel == SelectNotIn(prev_files, DOMAIN loc.latest_dir.files)
           changed_rel == changed_of(loc.prev_dir, loc.latest_dir)
           l1 == [loc EXCEPT !.new_rel = new_rel, !.removed_rel = removed_rel]
       IN IF DiffRaises(loc.prev_dir, loc.latest_dir)
          THEN Exit("crash", l1)
          ELSE /\ loc' = [l1 EXCEPT !.changed_rel = changed_rel, !.diffed = TRUE,
                                    !.cnt_new = Counter(new_rel),
                                    !.cnt_chg = Counter(changed_rel),
                                    !.cnt_rm = Counter(removed_rel)]
               /\ Goto("xlsx")
  /\ UNCHANGED <<lastdump, dumps, iterdir_first, reports, master, rundirs, artifacts, compare_script, today, nruns, mails, at_start, rewritten>>

(***************************************************************************)
(* lines 566-599: the four spreadsheets, in the order full, changed, new,  *)
(* removed.  The inputs are the day the clock shows (the execution date    *)
(* of the file name) and which write fails, if any: openpyxl missing       *)
(* fails the first.                                                        *)
(***************************************************************************)
Row(r, type) == [path |-> r, type |-> type]

\* a variant that writes the new rows as the walk listed them
rows_full_as_walked(new_rel, changed_rel) ==
  [ i \in 1..Len(new_rel) |-> Row(new_rel[i], "New File") ]
  \o [ i \in 1..Len(changed_rel) |-> Row(changed_rel[i], "Content Mismatch") ]

rows_full_of(new_rel, changed_rel) ==
  [ i \in 1..Len(sorted(Range(new_rel))) |-> Row(sorted(Range(new_rel))[i], "New File") ]
  \o [ i \in 1..Len(sorted(Range(changed_rel))) |->
         Row(sorted(Range(changed_rel))[i], "Content Mismatch") ]

XlsxNames == <<"ProdDumpComparison_List", "changed_files_only.xlsx",
               "new_files_only.xlsx", "removed_files_only.xlsx">>

\* the spreadsheets written when write number failAt fails (0: none fails)
xlsx_written(d, token, failAt) ==
  { Art(d, XlsxNames[i], IF i = 1 THEN token ELSE 0) :
      i \in { k \in 1..4 : failAt = 0 \/ k < failAt } }

\* a variant that notes a failed spreadsheet and goes on
write_reports_soft ==
  /\ pc = "xlsx"
  /\ \E exec_date \in today..MaxDay, failAt \in 0..4, module_missing \in BOOLEAN :
       /\ module_missing => failAt = 1
       /\ today' = exec_date
       /\ artifacts' = artifacts \cup xlsx_written(loc.day, exec_date, failAt)
       /\ loc' = [loc EXCEPT !.token = exec_date,
                             !.rows_full = rows_full_of(loc.new_rel, loc.changed_rel),
                                 !.rows_chg = sorted(Range(loc.changed_rel)),
                                 !.rows_new = sorted(Range(loc.new_rel)),
                                 !.rows_rm = sorted(Range(loc.removed_rel))]
       /\ mails' = IF failAt = 0 THEN mails
                   ELSE Append(mails, Mail("[ProdvsProd] XLSX write failed"))
       /\ Goto("beautify")
  /\ UNCHANGED <<lastdump, dumps, iterdir_first, reports, master, rundirs, compare_script, nruns, at_start, rewritten>>

write_reports ==
  /\ pc = "xlsx"
  /\ \E exec_date \in today..MaxDay, failAt \in 0..4, module_missing \in BOOLEAN :
       /\ module_missing => failAt = 1
       /\ today' = exec_date
       /\ artifacts' = artifacts \cup xlsx_written(loc.day, exec_date, failAt)
       /\ LET l1 == [loc EXCEPT !.token = exec_date,
                                 !.rows_full = rows_full_of(loc.new_rel, loc.changed_rel),
                                 !.rows_chg = sorted(Range(loc.changed_rel)),
                                 !.rows_new = sorted(Range(loc.new_rel)),
                                 !.rows_rm = sorted(Range(loc.removed_rel))]
          IN IF failAt = 0
             THEN mails' = mails /\ loc' = l1 /\ Goto("beautify")
             ELSE /\ mails' = Append(mails, Mail(IF module_missing
                                                 THEN "[ProdvsProd] XLSX module missing"
                                                 ELSE "[ProdvsProd] XLSX write failed"))
                  /\ Exit("xlsx", l1)
  /\ UNCHANGED <<lastdump, dumps, iterdir_first, reports, master, rundirs, compare_script, nruns, at_start, rewritten>>

(***************************************************************************)
(* lines 601-615: wrap the raw compare page and copy it beside the detail  *)
(* page; nothing to do when there is no compare page.                      *)
(***************************************************************************)
beautify_codecomp ==
  /\ pc = "beautify"
  /\ LET bc_out == Art(loc.day, "codecomp/codecomp.html", 0)
         bc_alias == Art(loc.day, "codecomp.html", 0)
     IN artifacts' = IF bc_out \in artifacts THEN artifacts \cup {bc_alias} ELSE artifacts
  /\ Goto("detail")
  /\ UNCHANGED <<lastdump, dumps, iterdir_first, reports, master, rundirs, compare_script, today, nruns, mails, loc, at_start, rewritten>>

(***************************************************************************)
(* lines 617-659: the detail page; a missing template ends the run.        *)
(***************************************************************************)
render_detail ==
  /\ pc = "detail"
  /\ \E dtpl \in BOOLEAN :
       IF ~dtpl
       THEN /\ artifacts' = artifacts
            /\ Exit("template", loc)
       ELSE /\ artifacts' = artifacts \cup {Art(loc.day, "index.html", 0)}
            /\ loc' = loc
            /\ Goto("db")
  /\ UNCHANGED <<lastdump, dumps, iterdir_first, reports, master, rundirs, compare_script, today, nruns, mails, at_start, rewritten>>

(***************************************************************************)
(* lines 661-686: read reports.json, append the run's record, sort by      *)
(* runDate, keep the first record of each detailHref, write the file.      *)
(* A file that is JSON but no list makes existing.append raise.            *)
(***************************************************************************)
update_master_db ==
  /\ pc = "db"
  /\ IF reports.kind = "notlist"
     THEN /\ UNCHANGED <<reports, rewritten>>
          /\ Exit("crash", loc)
     ELSE LET entry == entry_of(loc.day, loc.old_name, loc.new_name)
              merged == merged_of(existing_of(reports), entry)
          IN /\ reports' = ReportsFile("list", merged)
             /\ rewritten' = TRUE
             /\ loc' = [loc EXCEPT !.merged = merged]
             /\ Goto("master")
  /\ UNCHANGED <<lastdump, dumps, iterdir_first, master, rundirs, artifacts, compare_script, today, nruns, mails, at_start>>

(***************************************************************************)
(* lines 688-693: the master page; a missing template ends the run.        *)
(***************************************************************************)
\* a variant that moves the pointer before the template is read
render_master_pointer_first ==
  /\ pc = "master"
  /\ lastdump' = pointer_text(loc.new_name)
  /\ \E mtpl \in BOOLEAN :
       IF ~mtpl
       THEN /\ master' = master
            /\ Exit("template", loc)
       ELSE /\ master' = [exists |-> TRUE, cards |-> loc.merged]
            /\ loc' = loc
            /\ Goto("mail")
  /\ UNCHANGED <<dumps, iterdir_first, reports, rundirs, artifacts, compare_script, today, nruns, mails, at_start, rewritten>>

render_master ==
  /\ pc = "master"
  /\ \E mtpl \in BOOLEAN :
       IF ~mtpl
       THEN /\ master' = master
            /\ Exit("template", loc)
       ELSE /\ master' = [exists |-> TRUE, cards |-> loc.merged]
            /\ loc' = loc
            /\ Goto("mail")
  /\ UNCHANGED <<lastdump, dumps, iterdir_first, reports, rundirs, artifacts, compare_script, today, nruns, mails, at_start, rewritten>>

(***************************************************************************)
(* lines 695-706: the success mail, sent only when public_base_url is set. *)
(***************************************************************************)
success_mail ==
  /\ pc = "mail"
  /\ \E base_url \in BOOLEAN :
       mails' = IF base_url THEN Append(mails, Mail("[ProdvsProd] Report built")) ELSE mails
  /\ Goto("pointer")
  /\ UNCHANGED <<lastdump, dumps, iterdir_first, reports, master, rundirs, artifacts, compare_script, today, nruns, loc, at_start, rewritten>>

(***************************************************************************)
(* lines 708-712: the pointer moves to the new dump; main() returns.       *)
(***************************************************************************)
update_pointer ==
  /\ pc = "pointer"
  /\ lastdump' = pointer_text(loc.new_name)
  /\ Exit("success", loc)
  /\ UNCHANGED <<dumps, iterdir_first, reports, master, rundirs, artifacts, compare_script, today, nruns, mails, at_start, rewritten>>

Next ==
  \/ resolve_dumps
  \/ prepare_run
  \/ validate_dumps
  \/ external_compare
  \/ compute_diffs
  \/ write_reports
  \/ beautify_codecomp
  \/ render_detail
  \/ update_master_db
  \/ render_master
  \/ success_mail
  \/ update_pointer

Spec == Init /\ [][Next]_vars

(***************************************************************************)
(* The diff stage on its own, over every pair of trees of at most MaxFiles *)
(* files each: the state is the one main() is in at line 547, after a      *)
(* validation that passed (equal top-level folders, nothing required).     *)
(***************************************************************************)
InitDiff ==
  /\ lastdump = <<"prod_62.0_1stJan2025", NL>>
  /\ dumps = {"prod_62.0_1stJan2025", "prod_62.0_4thSept2025"}
  /\ iterdir_first = "prod_62.0_4thSept2025"
  /\ reports = ReportsFile("absent", <<>>)
  /\ master = [exists |-> FALSE, cards |-> <<>>]
  /\ rundirs = {1}
  /\ artifacts = {Art(1, "codecomp/", 0)}
  /\ compare_script = FALSE
  /\ today = 1
  /\ nruns = 1
  /\ pc = "diff"
  /\ exitcode = -1
  /\ outcome = "running"
  /\ mails = <<>>
  /\ at_start = Stores
  /\ rewritten = FALSE
  /\ \E pf \in FileMaps, lf \in FileMaps :
       LET tl == DirsOf(pf) \cup DirsOf(lf)
       IN loc = [Loc0 EXCEPT !.cfg = TRUE, !.old_name = "prod_62.0_1stJan2025",
                             !.new_name = "prod_62.0_4thSept2025", !.day = 1,
                             !.prev_dir = [dirs |-> tl, files |-> pf],
                             !.latest_dir = [dirs |-> tl, files |-> lf],
                             !.tl_prev = tl, !.tl_new = tl]

NextDiff ==
  \/ compute_diffs
  \/ write_reports

SpecDiff == InitDiff /\ [][NextDiff]_vars

(***************************************************************************)
(* send_mail, lines 146-177, on its own: one call with a configuration, a  *)
(* subject and what the mail programs or the SMTP server do.  The frame    *)
(* of the call is in loc; warned says that the except branch of line 177   *)
(* printed its "[WARN] mail failed" line.                                  *)
(***************************************************************************)
\* values of mail.to: the items between the commas
MailTo == { <<>>, <<" ">>, <<"ops@example.com">>, <<"ops@example.com", " ", "dev@example.com">> }

\* line 147: the stripped items that are not empty
rcpts_of(to) == SelectSeq(to, LAMBDA x : x # " ")

\* values of mail.method as written in setup.conf
MailMethods == {"mutt", " Mutt ", "sendmail", "smtp", "none"}

\* line 150: .strip().lower()
method_of(raw) == IF raw = " Mutt " THEN "mutt" ELSE raw

\* what subprocess.run does: the program exits 0, exits non-zero (check is
\* False, so no exception), or cannot be started (OSError)
RunResults == {"exit0", "nonzero", "oserror"}

\* where the SMTP branch raises, if it does: no smtp.host option, a port
\* that is no number, the connection, STARTTLS, the login, the send
SmtpResults == {"ok", "nohost", "badport", "connect", "starttls", "login", "refused"}

MailSubjects ==
  { "[ProdvsProd] lastdumpcomp.date is empty", "[ProdvsProd] previous dump missing",
    "[ProdvsProd] No new dump taken", "[ProdvsProd] Folder name mismatch",
    "[ProdvsProd] Required metadata missing in dumps", "[ProdvsProd] XLSX module missing",
    "[ProdvsProd] XLSX write failed", "[ProdvsProd] Report built" }

InitMail ==
  /\ lastdump = <<"prod_62.0_1stJan2025", NL>>
  /\ dumps = {"prod_62.0_1stJan2025"}
  /\ iterdir_first = "prod_62.0_1stJan2025"
  /\ reports = ReportsFile("absent", <<>>)
  /\ master = [exists |-> FALSE, cards |-> <<>>]
  /\ rundirs = {}
  /\ artifacts = {}
  /\ compare_script = FALSE
  /\ today = 1
  /\ nruns = 1
  /\ pc = "send_mail"
  /\ exitcode = -1
  /\ outcome = "running"
  /\ at_start = Stores
  /\ rewritten = FALSE
  /\ \E subj \in MailSubjects, to \in MailTo, raw \in MailMethods,
        run \in RunResults, smtp \in SmtpResults :
       /\ mails = <<Mail(subj)>>
       /\ loc = [to |-> to, method |-> raw, run |-> run, smtp |-> smtp, subj |-> subj,
                 rcpts |-> <<>>, attempted |-> FALSE, delivered |-> FALSE, warned |-> FALSE]

\* the call: return at once without recipients (line 149); else deliver by
\* the configured method, and turn every exception into a warning
send_mail ==
  /\ pc = "send_mail"
  /\ LET rcpts == rcpts_of(loc.to)
         method == method_of(loc.method)
         raised == IF method \in {"mutt", "sendmail"} THEN loc.run = "oserror"
                   ELSE loc.smtp # "ok"
         delivered == IF method \in {"mutt", "sendmail"} THEN loc.run = "exit0"
                      ELSE loc.smtp = "ok"
     IN loc' = IF rcpts = <<>>
               THEN [loc EXCEPT !.rcpts = rcpts]
               ELSE [loc EXCEPT !.rcpts = rcpts, !.attempted = TRUE,
                                !.delivered = delivered, !.warned = raised]
  /\ pc' = "returned"
  /\ UNCHANGED <<lastdump, dumps, iterdir_first, reports, master, rundirs, artifacts, compare_script, today,
                 nruns, exitcode, outcome, mails, at_start, rewritten>>

NextMail ==
  \/ send_mail

SpecMail == InitMail /\ [][NextMail]_vars

(***************************************************************************)
(* The two beautify_codecomp_html functions on their own: the one of       *)
(* prodvsprod.py (lines 212-370), which main() calls, and the one of       *)
(* codecomp_mod.py (lines 5-226).  Here artifacts is the content of the    *)
(* four files they touch, by name, and loc is the history of the calls on  *)
(* the page since the compare tool last produced it.                       *)
(***************************************************************************)
BC_OUT == "codecomp/codecomp.html"
BC_RAW == "codecomp/codecomp_raw.html"
BC_ALIAS == "codecomp.html"
BC_ALIAS_RAW == "codecomp_raw.html"

PageFiles == {BC_OUT, BC_RAW, BC_ALIAS, BC_ALIAS_RAW}

\* a file that does not exist
Absent == <<>>

\* the pages the compare tool produces
RawPages == { <<"raw", 1>>, <<"raw", 2>> }

\* the values of the two counters handed to the functions
CountPairs == { <<0, 0>>, <<1, 2>> }

\* codecomp_path.with_name("codecomp_raw.html")
with_name_raw(path) == IF path = BC_OUT THEN BC_RAW ELSE BC_ALIAS_RAW

\* the links re.findall finds in the text read: a raw page's own, the
\* generated page's own, none in no text
anchor_pairs(html) ==
  IF html = Absent THEN 0 ELSE IF html[1] = "raw" THEN html[2] ELSE 9

\* the page codecomp_mod.py writes
summary_page(counts, raw_html) == <<"summary", counts, anchor_pairs(raw_html)>>

\* the page prodvsprod.py writes: its shell around the escaped original
shell_page(counts, original) == <<"shell", counts, original>>

Calls0(path) ==
  [ path |-> path, callers |-> {}, calls |-> 0, original |-> Absent, before |-> Absent,
    failed |-> FALSE, raised |-> FALSE ]

InitBeautify ==
  /\ lastdump = <<"prod_62.0_1stJan2025", NL>>
  /\ dumps = {"prod_62.0_1stJan2025", "prod_62.0_4thSept2025"}
  /\ iterdir_first = "prod_62.0_4thSept2025"
  /\ reports = ReportsFile("absent", <<>>)
  /\ master = [exists |-> FALSE, cards |-> <<>>]
  /\ rundirs = {1}
  /\ compare_script \in BOOLEAN
  /\ today = 1
  /\ nruns = 0
  /\ pc = "beautify"
  /\ exitcode = -1
  /\ outcome = "running"
  /\ mails = <<>>
  /\ at_start = [lastdump |-> lastdump, reports |-> reports, master |-> master,
                 rundirs |-> rundirs, artifacts |-> {}]
  /\ rewritten = FALSE
  /\ \E path \in {BC_OUT, BC_ALIAS}, page \in RawPages \cup {Absent} :
       /\ artifacts = [ f \in PageFiles |->
                          IF f = path /\ compare_script THEN page ELSE Absent ]
       /\ loc = [Calls0(path) EXCEPT !.original = artifacts[path]]

\* what a call leaves in the history
called(who, raised, failed) ==
  [loc EXCEPT !.callers = loc.callers \cup {who}, !.calls = loc.calls + 1,
              !.original = IF loc.calls = 0 THEN artifacts[loc.path] ELSE loc.original,
              !.before = artifacts[loc.path],
              !.failed = loc.failed \/ failed, !.raised = raised]

\* the compare tool writes a page again
fresh_raw_page ==
  /\ pc = "beautify"
  /\ nruns < MaxCalls
  /\ compare_script
  /\ nruns' = nruns + 1
  /\ \E page \in RawPages :
       /\ artifacts' = [artifacts EXCEPT ![loc.path] = page]
       /\ loc' = [Calls0(loc.path) EXCEPT !.original = page]
  /\ UNCHANGED <<lastdump, dumps, iterdir_first, reports, master, rundirs, compare_script,
                 today, pc, exitcode, outcome, mails, at_start, rewritten>>

\* prodvsprod.py, lines 212-370: nothing without a page; else the page is
\* read, wrapped and written in place, then copied to the alias (copy2 of a
\* file onto itself raises SameFileError, after the write)
beautify_codecomp_html ==
  /\ pc = "beautify"
  /\ nruns < MaxCalls
  /\ nruns' = nruns + 1
  /\ \E counts \in CountPairs, out \in {"none", BC_ALIAS} :
       LET path == loc.path
           original == artifacts[path]
           shell == shell_page(counts, original)
           f1 == [artifacts EXCEPT ![path] = shell]
           f2 == IF out # "none" /\ out # path THEN [f1 EXCEPT ![out] = shell] ELSE f1
       IN IF original = Absent
          THEN /\ artifacts' = artifacts
               /\ loc' = called("prodvsprod", FALSE, FALSE)
          ELSE /\ artifacts' = f2
               /\ loc' = called("prodvsprod", out = path, FALSE)
  /\ UNCHANGED <<lastdump, dumps, iterdir_first, reports, master, rundirs, compare_script,
                 today, pc, exitcode, outcome, mails, at_start, rewritten>>

\* codecomp_mod.py, lines 5-226: when the page exists it is read and copied
\* to codecomp_raw.html beside it and at the run root, any exception of
\* that being swallowed (fail says where one is raised); then the summary
\* page is written in place, always, and copied to the alias
mod_beautify_codecomp_html ==
  /\ pc = "beautify"
  /\ nruns < MaxCalls
  /\ nruns' = nruns + 1
  /\ \E counts \in CountPairs, out \in {"none", BC_ALIAS},
        fail \in {"none", "read", "copy_beside", "copy_root"} :
       LET path == loc.path
           exists == artifacts[path] # Absent
           raw_html == IF exists /\ fail # "read" THEN artifacts[path] ELSE Absent
           f1 == IF exists /\ fail \notin {"read", "copy_beside"}
                 THEN [artifacts EXCEPT ![with_name_raw(path)] = artifacts[path]]
                 ELSE artifacts
           f2 == IF exists /\ fail = "none" /\ out # "none"
                 THEN [f1 EXCEPT ![BC_ALIAS_RAW] = artifacts[path]]
                 ELSE f1
           html == summary_page(counts, raw_html)
           f3 == [f2 EXCEPT ![path] = html]
           f4 == IF out # "none" /\ out # path THEN [f3 EXCEPT ![out] = html] ELSE f3
       IN /\ (fail = "copy_root" => out # "none")
          /\ (fail # "none" => exists)
          /\ artifacts' = f4
          /\ loc' = called("codecomp_mod", out = path, fail # "none")
  /\ UNCHANGED <<lastdump, dumps, iterdir_first, reports, master, rundirs, compare_script,
                 today, pc, exitcode, outcome, mails, at_start, rewritten>>

NextBeautify ==
  \/ fresh_raw_page
  \/ beautify_codecomp_html
  \/ mod_beautify_codecomp_html

SpecBeautify == InitBeautify /\ [][NextBeautify]_vars

(***************************************************************************)
(* skin_codecomp.py: inject_skin on one page, called again and again.      *)
(* A page is the sequence of the pieces of its text that matter to the     *)
(* function: "</head>", the style block CSS, and other text.  artifacts is *)
(* the page file, loc the history of the calls.                            *)
(***************************************************************************)
HEAD_CLOSE == "</head>"

\* the block of lines 7-31; it holds id="skin-codecomp" once and no </head>
CSS == "<style id=\"skin-codecomp\">"

PageTokens == {"x", HEAD_CLOSE, CSS}

Pages == UNION { [1..n -> PageTokens] : n \in 0..MaxCalls }

has_skin_never(html) == FALSE

\* 'id="skin-codecomp"' in html
has_skin(html) == \E i \in 1..Len(html) : html[i] = CSS

\* "</head>" in html
has_head(html) == \E i \in 1..Len(html) : html[i] = HEAD_CLOSE

\* html.replace("</head>", CSS + "\n</head>"): every occurrence
RECURSIVE replace_head(_)
replace_head(html) ==
  IF html = <<>> THEN <<>>
  ELSE IF Head(html) = HEAD_CLOSE
       THEN <<CSS, NL, HEAD_CLOSE>> \o replace_head(Tail(html))
       ELSE <<Head(html)>> \o replace_head(Tail(html))

InitSkin ==
  /\ lastdump = <<"prod_62.0_1stJan2025", NL>>
  /\ dumps = {"prod_62.0_1stJan2025", "prod_62.0_4thSept2025"}
  /\ iterdir_first = "prod_62.0_4thSept2025"
  /\ reports = ReportsFile("absent", <<>>)
  /\ master = [exists |-> FALSE, cards |-> <<>>]
  /\ rundirs = {1}
  /\ compare_script = TRUE
  /\ today = 1
  /\ nruns = 0
  /\ pc = "skin"
  /\ exitcode = -1
  /\ outcome = "running"
  /\ mails = <<>>
  /\ at_start = [lastdump |-> lastdump, reports |-> reports, master |-> master,
                 rundirs |-> rundirs, artifacts |-> {}]
  /\ rewritten = FALSE
  /\ \E exists \in BOOLEAN, html \in Pages :
       /\ (~exists => html = <<>>)
       /\ artifacts = [exists |-> exists, html |-> html]
  /\ loc = [first |-> artifacts, before |-> artifacts, returns |-> <<>>]

\* lines 35-48
inject_skin ==
  /\ pc = "skin"
  /\ nruns < MaxCalls
  /\ nruns' = nruns + 1
  /\ LET html == artifacts.html
         ret == artifacts.exists /\ ~has_skin(html) /\ has_head(html)
     IN /\ artifacts' = IF ret THEN [artifacts EXCEPT !.html = replace_head(html)]
                        ELSE artifacts
        /\ loc' = [loc EXCEPT !.before = artifacts, !.returns = Append(loc.returns, ret)]
  /\ UNCHANGED <<lastdump, dumps, iterdir_first, reports, master, rundirs, compare_script,
                 today, pc, exitcode, outcome, mails, at_start, rewritten>>

NextSkin == inject_skin

SpecSkin == InitSkin /\ [][NextSkin]_vars

(***************************************************************************)
(* Properties of the pipeline.                                             *)
(***************************************************************************)
Subjects == {mails[i].subj : i \in 1..Len(mails)}

\* the validator of lines 510-527 has run in the current run
Validated == loc.day # 0 /\ pc # "validate"

\* C1: the pointer file is written only at the end of a fully successful
\* run: in every state that is not the end of a successful run (the run is
\* still going, or it ended on a configuration error, on no new dump, on a
\* mismatch, on missing required metadata, on an XLSX failure or on a
\* missing template) the pointer holds what it held when the run started.
C1_PointerOnlyAfterSuccess ==
  (pc # "exited" \/ outcome # "success") => lastdump = at_start.lastdump

\* a run that got as far as rewriting the index and then lost its template
C1_Witness ==
  /\ pc = "exited" /\ outcome = "template"
  /\ loc.diffed /\ reports # at_start.reports
  /\ lastdump = at_start.lastdump

\* C2: when the newest dump has the name the pointer records, the run sends
\* the 'No new dump taken' notification and stops: pointer and reports.json
\* are as at the start and no dated run directory was created.
C2_SameNameStops ==
  (loc.new_name # "" /\ loc.old_name = loc.new_name) =>
     /\ pc = "exited" /\ outcome = "no_new_dump"
     /\ mails = <<Mail("[ProdvsProd] No new dump taken")>>
     /\ lastdump = at_start.lastdump
     /\ reports = at_start.reports
     /\ rundirs = at_start.rundirs

\* the second run finds nothing newer than what the first one recorded
C2_Witness ==
  /\ pc = "exited" /\ outcome = "no_new_dump" /\ nruns = 2
  /\ rundirs # {}
  /\ loc.old_name = loc.new_name /\ loc.new_name = NameOf(lastdump)

Listed == {"success", "no_new_dump", "config", "mismatch", "missing_required", "xlsx"}

\* C3 as stated: a run that ends in one of the six listed outcomes exits
\* with a code that no other listed outcome uses.
C3_AllCodesDistinct ==
  (pc = "exited" /\ outcome \in Listed) =>
     \A o \in Listed \ {outcome} : exitcode # exit_code(o)

\* C3: configuration error, structural mismatch, missing required metadata
\* and report-write failure each exit with a code no other listed outcome
\* uses; success and no-new-data both exit with 0, and of the two only the
\* no-new-data run sends the 'No new dump taken' notification.
C3_CodesDistinctButZero ==
  (pc = "exited" /\ outcome \in Listed) =>
     /\ outcome \in {"config", "mismatch", "missing_required", "xlsx"} =>
          \A o \in Listed \ {outcome} : exitcode # exit_code(o)
     /\ outcome \in {"success", "no_new_dump"} =>
          /\ exitcode = 0
          /\ \A o \in Listed \ {"success", "no_new_dump"} : exit_code(o) # 0
          /\ (outcome = "no_new_dump") <=> ("[ProdvsProd] No new dump taken" \in Subjects)

C3_Witness ==
  /\ pc = "exited" /\ outcome = "missing_required" /\ exitcode = 3

\* a category of the required list is absent from the latest dump's top level
RequiredMissingInLatest ==
  /\ Validated
  /\ \E i \in 1..Len(loc.req) : loc.req[i] \notin loc.tl_new

\* C4 as stated: whenever a required category is absent from the latest
\* dump's top level the run ends with exit code 3 and the 'Required
\* metadata missing in dumps' notification, before any diff, pointer
\* unchanged.
C4_MissingRequiredExits3 ==
  RequiredMissingInLatest =>
     /\ pc = "exited" /\ outcome = "missing_required" /\ exitcode = 3
     /\ mails # <<>>
     /\ mails[Len(mails)].subj = "[ProdvsProd] Required metadata missing in dumps"
     /\ ~loc.diffed
     /\ lastdump = at_start.lastdump

\* C4: whenever a required category is absent from the latest dump's top
\* level the run ends before any diff with the pointer unchanged; it is
\* exit code 3 with the 'Required metadata missing in dumps' notification
\* when the two dumps have the same top-level directories, and exit code 2
\* with the 'Folder name mismatch' notification when they differ.
C4_MissingRequiredHalts ==
  RequiredMissingInLatest =>
     /\ pc = "exited"
     /\ ~loc.diffed
     /\ lastdump = at_start.lastdump
     /\ mails # <<>>
     /\ IF loc.tl_prev = loc.tl_new
        THEN /\ outcome = "missing_required" /\ exitcode = 3
             /\ mails[Len(mails)].subj = "[ProdvsProd] Required metadata missing in dumps"
             /\ mails[Len(mails)].miss_new = missing_in(loc.req, loc.tl_new)
        ELSE /\ outcome = "mismatch" /\ exitcode = 2
             /\ mails[Len(mails)].subj = "[ProdvsProd] Folder name mismatch"

\* both dumps have the same folders and both lack the required one
C4_Witness ==
  /\ pc = "exited" /\ outcome = "missing_required"
  /\ loc.tl_prev = loc.tl_new
  /\ "triggers" \notin loc.tl_new
  /\ loc.req = <<"classes", "triggers">>

\* C5: when the top-level directory sets of the two dumps differ in any way
\* (a strict superset with nothing required missing included) the run ends
\* with exit code 2 and a notification that carries both sets, and no diff
\* is made; a run that goes past validation has equal sets.
C5_ParityMismatchExits2 ==
  /\ (Validated /\ loc.tl_prev # loc.tl_new) =>
        /\ pc = "exited" /\ outcome = "mismatch" /\ exitcode = 2
        /\ mails # <<>>
        /\ mails[Len(mails)] = [Mail("[ProdvsProd] Folder name mismatch")
                                  EXCEPT !.prev = loc.tl_prev, !.latest = loc.tl_new]
        /\ ~loc.diffed
  /\ (Validated /\ pc # "exited") =>
        top_level_dirs(loc.prev_dir) = top_level_dirs(loc.latest_dir)

\* the latest dump has every folder of the previous one and one more
C5_Witness ==
  /\ pc = "exited" /\ outcome = "mismatch"
  /\ loc.req = <<>>
  /\ loc.tl_prev \subseteq loc.tl_new /\ loc.tl_prev # loc.tl_new

\* C6 as stated: a run that ends in any outcome other than success leaves
\* both the pointer and reports.json as they were when it started.
C6_FailedRunIsNoOp ==
  (pc = "exited" /\ outcome # "success") =>
     /\ lastdump = at_start.lastdump
     /\ reports = at_start.reports

Kept(before, after) ==
  \A i \in 1..Len(before) : \E j \in 1..Len(after) : after[j] = before[i]

UniqueHref(rs) ==
  \A i, j \in 1..Len(rs) : rs[i].detailHref = rs[j].detailHref => i = j

\* no record is dated later than the run folder its detailHref names
WellDated(rs) == \A i \in 1..Len(rs) : rs[i].runDate <= rs[i].detailHref

\* C7 as stated: every record that reports.json held before a run is in it
\* after the run, whatever the index file held.
C7_RecordsNeverLost == Kept(at_start.reports.recs, reports.recs)

\* C7: every record that reports.json held before a run is in it after the
\* run, provided the file read held no two records with the same
\* detailHref and no record dated later than the run folder its detailHref
\* names.
C7_WellFormedRecordsKept ==
  (UniqueHref(at_start.reports.recs) /\ WellDated(at_start.reports.recs)) =>
     Kept(at_start.reports.recs, reports.recs)

\* the second run has just rewritten an index that the first run wrote
C7_Witness ==
  /\ pc = "master" /\ nruns = 2
  /\ at_start.reports.kind = "list" /\ at_start.reports.recs # <<>>
  /\ UniqueHref(at_start.reports.recs) /\ WellDated(at_start.reports.recs)
  /\ Len(reports.recs) > Len(at_start.reports.recs)

\* C8: once the pipeline has rewritten reports.json no two of its records
\* share a detailHref, after any number of runs; right after the rewrite
\* exactly one record carries the run's detailHref, and appending the run's
\* record once more gives the same list.
C8_OneRecordPerHref ==
  rewritten =>
     /\ UniqueHref(reports.recs)
     /\ pc = "master" =>
          /\ Cardinality({i \in 1..Len(reports.recs) : reports.recs[i].detailHref = loc.day}) = 1
          /\ merged_of(reports.recs, entry_of(loc.day, loc.old_name, loc.new_name)) = reports.recs

\* a second run on the day of the first appends a record with the same href
C8_Witness ==
  /\ pc = "master" /\ nruns = 2
  /\ \E i \in 1..Len(at_start.reports.recs) :
        at_start.reports.recs[i] = entry_of(loc.day, "scratch", "prod_62.0_1stJan2025")
  /\ loc.old_name = "prod_62.0_1stJan2025"

\* the four path sets of a finished diff
NewSet == Range(loc.new_rel)
RemovedSet == Range(loc.removed_rel)
ChangedSet == Range(loc.changed_rel)
UnchangedSet ==
  {r \in Common(loc.prev_dir, loc.latest_dir) :
      loc.prev_dir.files[r].data = loc.latest_dir.files[r].data}

\* C9: after the diff the new, removed and changed paths are pairwise
\* disjoint (and disjoint from the unchanged ones), no path is listed
\* twice, and together with the unchanged paths they are exactly the paths
\* of the two dumps.
C9_DiffPartitions ==
  pc = "xlsx" =>
     /\ NewSet \cap RemovedSet = {}
     /\ NewSet \cap ChangedSet = {}
     /\ RemovedSet \cap ChangedSet = {}
     /\ UnchangedSet \cap (NewSet \cup RemovedSet \cup ChangedSet) = {}
     /\ Cardinality(NewSet) = Len(loc.new_rel)
     /\ Cardinality(RemovedSet) = Len(loc.removed_rel)
     /\ Cardinality(ChangedSet) = Len(loc.changed_rel)
     /\ NewSet \cup RemovedSet \cup ChangedSet \cup UnchangedSet
          = (DOMAIN loc.prev_dir.files) \cup (DOMAIN loc.latest_dir.files)

\* a diff with a new, a changed-or-unchanged and a removed path at once
C9_Witness ==
  /\ pc = "xlsx"
  /\ NewSet # {} /\ RemovedSet # {}
  /\ ChangedSet \cup UnchangedSet # {}

\* C10: a path present in both dumps is reported Changed exactly when the
\* two files differ in size or in SHA-256; two files of equal size and
\* different content are Changed.
C10_ChangedIffSizeOrDigest ==
  pc = "xlsx" =>
     \A r \in Common(loc.prev_dir, loc.latest_dir) :
        LET a == loc.prev_dir.files[r]
            b == loc.latest_dir.files[r]
        IN /\ (r \in ChangedSet) <=> (st_size(a) # st_size(b) \/ sha256(a.data) # sha256(b.data))
           /\ (st_size(a) = st_size(b) /\ a.data # b.data) => r \in ChangedSet
           /\ r \notin NewSet \cup RemovedSet

\* a common path whose two files have the same size and different bytes
C10_Witness ==
  /\ pc = "xlsx"
  /\ \E r \in Common(loc.prev_dir, loc.latest_dir) :
        /\ st_size(loc.prev_dir.files[r]) = st_size(loc.latest_dir.files[r])
        /\ loc.prev_dir.files[r].data # loc.latest_dir.files[r].data
        /\ r \in ChangedSet

\* C11: after the diff the new list is exactly the paths only the latest
\* dump has and the removed list exactly the paths only the previous dump
\* has; two dumps with the same files and the same contents give empty
\* new, removed and changed lists.
C11_NewAndRemovedExact ==
  pc = "xlsx" =>
     /\ NewSet = (DOMAIN loc.latest_dir.files) \ (DOMAIN loc.prev_dir.files)
     /\ RemovedSet = (DOMAIN loc.prev_dir.files) \ (DOMAIN loc.latest_dir.files)
     /\ loc.prev_dir.files = loc.latest_dir.files =>
          /\ loc.new_rel = <<>>
          /\ loc.removed_rel = <<>>
          /\ loc.changed_rel = <<>>

\* two dumps with the same two files, byte for byte
C11_Witness ==
  /\ pc = "xlsx"
  /\ loc.prev_dir.files = loc.latest_dir.files
  /\ Cardinality(DOMAIN loc.prev_dir.files) = 2
  /\ loc.new_rel = <<>> /\ loc.removed_rel = <<>> /\ loc.changed_rel = <<>>

\* the common paths whose stat or read raises
UnreadableCommon(prev, latest) ==
  { r \in Common(prev, latest) : ~prev.files[r].ok \/ ~latest.files[r].ok }

\* C12 as stated: a diff that meets an unreadable file on a path of both
\* dumps goes on to the reports, with that path in none of the new, removed
\* and changed lists.
C12_UnreadableIsSkipped ==
  [][(pc = "diff" /\ UnreadableCommon(loc.prev_dir, loc.latest_dir) # {}) =>
        /\ pc' = "xlsx"
        /\ \A r \in UnreadableCommon(loc.prev_dir, loc.latest_dir) :
              r \notin Range(loc'.new_rel) \cup Range(loc'.removed_rel)
                         \cup Range(loc'.changed_rel)]_vars

\* the category the page should show for a path
CategoryOf(rel) == IF Len(rel) > 1 THEN rel[1] ELSE "(root)"

CountBy(rels) ==
  [ k \in { CategoryOf(rels[i]) : i \in 1..Len(rels) } |->
      Cardinality({ i \in 1..Len(rels) : CategoryOf(rels[i]) = k }) ]

\* C13 as stated: the per-category counters count a path under its first
\* segment and a file directly under the dump's root under "(root)".
C13_RootFilesUnderRoot ==
  pc = "xlsx" =>
     /\ loc.cnt_new = CountBy(loc.new_rel)
     /\ loc.cnt_chg = CountBy(loc.changed_rel)
     /\ loc.cnt_rm = CountBy(loc.removed_rel)

RECURSIVE SumOver(_, _)
SumOver(f, S) ==
  IF S = {} THEN 0
  ELSE LET k == CHOOSE x \in S : TRUE
       IN f[k] + SumOver(f, S \ {k})

Total(cnt) == SumOver(cnt, DOMAIN cnt)

\* C14: after the diff the per-category new counts add up to the number of
\* new files, and so do the changed and the removed counts.
C14_CountersAddUp ==
  pc = "xlsx" =>
     /\ Total(loc.cnt_new) = Len(loc.new_rel)
     /\ Total(loc.cnt_chg) = Len(loc.changed_rel)
     /\ Total(loc.cnt_rm) = Len(loc.removed_rel)

\* two new files of one folder
C14_Witness ==
  /\ pc = "xlsx"
  /\ Len(loc.new_rel) = 2
  /\ DOMAIN loc.cnt_new = {"classes"}
  /\ loc.cnt_new["classes"] = 2

\* C15 as stated: a run that ends in one of the listed outcomes
\* (configuration error, no new dump, mismatch, missing required metadata,
\* report-write failure, success) has sent a notification.
C15_EveryOutcomeNotifies ==
  (pc = "exited" /\ outcome \in Listed) => mails # <<>>

\* the stages after the spreadsheets
AfterXlsx == {"beautify", "detail", "db", "master", "mail", "pointer"}

\* C16: a run in which a spreadsheet write fails (module missing or save
\* raising) ends there with exit code 6 and a notification, although the
\* diff was made: reports.json and the pointer are as at the start; a run
\* goes past the spreadsheets only with all four written.
C16_XlsxFailureIsFatal ==
  /\ (pc = "exited" /\ outcome = "xlsx") =>
        /\ exitcode = 6
        /\ loc.diffed
        /\ mails # <<>>
        /\ mails[Len(mails)].subj \in {"[ProdvsProd] XLSX module missing",
                                        "[ProdvsProd] XLSX write failed"}
        /\ reports = at_start.reports
        /\ lastdump = at_start.lastdump
  /\ pc \in AfterXlsx => xlsx_written(loc.day, loc.token, 0) \subseteq artifacts

\* the third spreadsheet failed after two were written
C16_Witness ==
  /\ pc = "exited" /\ outcome = "xlsx" /\ loc.diffed
  /\ Art(loc.day, "changed_files_only.xlsx", 0) \in artifacts
  /\ Art(loc.day, "new_files_only.xlsx", 0) \notin artifacts

\* C17: a run that the validator stops (parity or required metadata) has
\* made nothing after the run folder and the working copies: no compare
\* folder, spreadsheet, detail page or compare page, no master page, no
\* record in reports.json, no pointer change, no diff.
C17_ValidatorFailureNoOutput ==
  (pc = "exited" /\ outcome \in {"mismatch", "missing_required"}) =>
     /\ artifacts = at_start.artifacts
     /\ reports = at_start.reports
     /\ master = at_start.master
     /\ lastdump = at_start.lastdump
     /\ rundirs = at_start.rundirs \cup {loc.day}
     /\ ~loc.diffed
     /\ Len(mails) = 1

\* the second run is stopped; what the first run made is all there is
C17_Witness ==
  /\ pc = "exited" /\ outcome = "mismatch" /\ nruns = 2
  /\ artifacts # {} /\ artifacts = at_start.artifacts
  /\ at_start.reports.kind = "list"

\* the pointer file is empty or holds white space only
IsBlank(s) == \A i \in 1..Len(s) : s[i] = NL

\* the pointer file names a folder that is not under the dumps root
NamesMissing(s) == ~IsBlank(s) /\ \A i \in 1..Len(s) : s[i] # NL => s[i] \notin dumps

\* C19: with the configuration loaded, a pointer file that is empty or
\* blank, or that names a folder missing under the dumps root, ends the run
\* as a configuration error (exit code 1) with its notification, with no
\* run folder made and the pointer and reports.json unchanged.
C19_BadPointerIsConfigError ==
  (loc.cfg /\ (IsBlank(at_start.lastdump) \/ NamesMissing(at_start.lastdump))) =>
     /\ pc = "exited" /\ outcome = "config" /\ exitcode = 1
     /\ mails = <<Mail(IF IsBlank(at_start.lastdump)
                       THEN "[ProdvsProd] lastdumpcomp.date is empty"
                       ELSE "[ProdvsProd] previous dump missing")>>
     /\ rundirs = at_start.rundirs
     /\ lastdump = at_start.lastdump
     /\ reports = at_start.reports

\* a pointer of white space only
C19_Witness ==
  /\ pc = "exited" /\ outcome = "config" /\ loc.cfg
  /\ lastdump = <<NL>>
  /\ mails = <<Mail("[ProdvsProd] lastdumpcomp.date is empty")>>
  /\ rundirs = {}

\* C20: the folder taken as the latest dump has a date token, and no dated
\* folder under the dumps root has a later date; with no dated folder
\* under the root the run ends as a configuration error.
C20_LatestHasMaximalDate ==
  /\ loc.new_name # "" =>
        /\ loc.new_name \in dumps
        /\ parse_dump_date_token(loc.new_name) # None
        /\ \A q \in dumps :
              parse_dump_date_token(q) # None =>
                 parse_dump_date_token(q) <= parse_dump_date_token(loc.new_name)
  /\ (nruns >= 1 /\ \A q \in dumps : parse_dump_date_token(q) = None) =>
        /\ pc = "exited" /\ outcome = "config" /\ exitcode = 1
        /\ loc.new_name = ""

\* three folders: one undated, one early, one late
C20_Witness ==
  /\ loc.new_name = "prod_62.0_4thSept2025"
  /\ dumps = {"scratch", "prod_62.0_1stJan2025", "prod_62.0_4thSept2025"}

\* C18 as stated: a call of send_mail returns to its caller whatever the
\* delivery did, and a delivery that failed, by mutt, sendmail or SMTP, has
\* left a warning.
C18_FailedDeliveryWarned ==
  /\ pc \in {"send_mail", "returned"}
  /\ (pc = "returned" /\ loc.attempted /\ ~loc.delivered) => loc.warned

\* the paths of the rows of one type in the full report, in row order
RowsOfType(type) ==
  LET rs == SelectSeq(loc.rows_full, LAMBDA row : row.type = type)
  IN [ i \in 1..Len(rs) |-> rs[i].path ]

\* the five row lists the spreadsheets are written from
EmittedLists ==
  { RowsOfType("New File"), RowsOfType("Content Mismatch"),
    loc.rows_chg, loc.rows_new, loc.rows_rm }

AscendingByString(rows) ==
  \A i, j \in 1..Len(rows) : i < j => StrLess(StrOf(rows[i]), StrOf(rows[j]))

AscendingByParts(rows) ==
  \A i, j \in 1..Len(rows) : i < j => PathLess(rows[i], rows[j])

IsPrefix(a, b) == Len(a) < Len(b) /\ SubSeq(b, 1, Len(a)) = a

\* p has a folder at the place where q has a longer name that goes on with
\* a character below "/"
FolderNamePrefixes(p, q) ==
  \E k \in 1..Len(p) :
     /\ k < Len(p) /\ k <= Len(q)
     /\ SubSeq(p, 1, k - 1) = SubSeq(q, 1, k - 1)
     /\ IsPrefix(Chars(p[k]), Chars(q[k]))
     /\ Chars(q[k])[Len(Chars(p[k])) + 1] < 47

\* C21 as stated: the rows of each emitted list are in ascending order of
\* the relative path string.
C21_RowsInStringOrder ==
  pc \in AfterXlsx => \A rows \in EmittedLists : AscendingByString(rows)

\* C21: the rows of each emitted list are in ascending order of the
\* relative path compared segment by segment; that is the order of the
\* path strings for every two rows but those where a folder name of one is
\* the start of a longer name in the other that goes on with a character
\* below "/".
C21_RowsInPathOrder ==
  pc \in AfterXlsx =>
     \A rows \in EmittedLists :
        /\ AscendingByParts(rows)
        /\ \A i, j \in 1..Len(rows) :
              (i < j /\ ~FolderNamePrefixes(rows[i], rows[j])
                     /\ ~FolderNamePrefixes(rows[j], rows[i]))
                 => StrLess(StrOf(rows[i]), StrOf(rows[j]))

\* classes/Bar.cls is written before classes.txt
C21_Witness ==
  /\ pc \in AfterXlsx
  /\ loc.rows_new = << <<"classes", "Bar.cls">>, <<"classes.txt">> >>
  /\ RowsOfType("New File") = loc.rows_new

\* the one ascending sequence of the paths of S
Ascending(S) ==
  CHOOSE sq \in [1..Cardinality(S) -> S] :
     \A i, j \in 1..Cardinality(S) : i < j => PathLess(sq[i], sq[j])

\* the rows of the full report as the contents of the two dumps fix them
ExpectedRows(prev, latest) ==
  LET N == Ascending((DOMAIN latest.files) \ (DOMAIN prev.files))
      C == Ascending({ r \in Common(prev, latest) :
                          prev.files[r].data # latest.files[r].data })
  IN [ i \in 1..Len(N) |-> Row(N[i], "New File") ]
     \o [ i \in 1..Len(C) |-> Row(C[i], "Content Mismatch") ]

\* C22: the rows of the full report are fixed by what the two dumps hold:
\* whatever order the two walks listed the files in, the rows are the new
\* paths and then the changed paths, each in ascending order, so two runs
\* over the same contents write the same rows.
C22_RowsIndependentOfWalk ==
  pc \in AfterXlsx =>
     loc.rows_full = ExpectedRows(loc.prev_dir, loc.latest_dir)

\* the walk listed two new files in the order opposite to the rows'
C22_Witness ==
  /\ pc \in AfterXlsx
  /\ Len(loc.new_rel) = 2
  /\ loc.rows_full = << Row(loc.new_rel[2], "New File"), Row(loc.new_rel[1], "New File") >>

\* the records of an index whose detailHref is the folder of day d
RecordsOfDay(rs, d) == { i \in 1..Len(rs) : rs[i].detailHref = d }

\* the spreadsheets in the run folder of day d
SheetsOfDay(arts, d) == { a \in arts : a.dir = d /\ a.name \in Range(XlsxNames) }

\* C23: a successful run made wholly on a day on which an earlier run had
\* already written its run folder and its spreadsheets adds no run folder
\* and no spreadsheet name (the full report's name carries the same date),
\* and leaves exactly one record for that day's folder in reports.json.
C23_SameDayRerunOverwrites ==
  ( /\ pc = "exited" /\ outcome = "success"
    /\ loc.token = loc.day
    /\ loc.day \in at_start.rundirs
    /\ xlsx_written(loc.day, loc.day, 0) \subseteq at_start.artifacts ) =>
     /\ rundirs = at_start.rundirs
     /\ SheetsOfDay(artifacts, loc.day) = SheetsOfDay(at_start.artifacts, loc.day)
     /\ Cardinality(RecordsOfDay(reports.recs, loc.day)) = 1

\* two successful runs on one day, the second on the next pair of dumps
C23_Witness ==
  /\ pc = "exited" /\ outcome = "success" /\ nruns = 2
  /\ loc.token = loc.day /\ loc.day \in at_start.rundirs
  /\ xlsx_written(loc.day, loc.day, 0) \subseteq at_start.artifacts
  /\ NameOf(at_start.lastdump) = "prod_62.0_1stJan2025"
  /\ \E i \in 1..Len(at_start.reports.recs) :
        at_start.reports.recs[i] = entry_of(loc.day, "scratch", "prod_62.0_1stJan2025")

\* C25: the run that follows a successful run, with the configuration in
\* place and nothing added under the dumps root, reads the pointer back as
\* the name of the latest dump (the name the successful run wrote, line
\* end stripped) and ends as no new dump, exit code 0, with the pointer,
\* reports.json, the run folders and their files unchanged.
C25_RerunAfterSuccessIsNoNewDump ==
  [][(pc = "exited" /\ outcome = "success" /\ dumps' = dumps /\ loc'.cfg) =>
        /\ lastdump = <<loc.new_name, NL>>
        /\ loc'.old_name = loc.new_name
        /\ loc'.new_name = loc.new_name
        /\ pc' = "exited" /\ outcome' = "no_new_dump" /\ exitcode' = 0
        /\ lastdump' = lastdump
        /\ reports' = reports
        /\ rundirs' = rundirs
        /\ artifacts' = artifacts]_vars

\* a run that found no new dump after a run that had moved the pointer
C25_Witness ==
  /\ pc = "exited" /\ outcome = "no_new_dump" /\ nruns = 2
  /\ rewritten
  /\ lastdump = <<"prod_62.0_4thSept2025", NL>>
  /\ loc.old_name = "prod_62.0_4thSept2025"

\* C26: when the pointer names a folder with a date token at the start of
\* a run, it names a folder with a date token in every state of that run,
\* and the date is not earlier than at the start.
C26_PointerNeverGoesBack ==
  parse_dump_date_token(NameOf(at_start.lastdump)) # None =>
     /\ parse_dump_date_token(NameOf(lastdump)) # None
     /\ parse_dump_date_token(NameOf(at_start.lastdump))
          <= parse_dump_date_token(NameOf(lastdump))

\* the pointer moved from the January dump to a September dump
C26_Witness ==
  /\ pc = "exited" /\ outcome = "success"
  /\ NameOf(at_start.lastdump) = "prod_62.0_1stJan2025"
  /\ parse_dump_date_token(NameOf(lastdump)) = 20250904

\* C27: in every state in which the current run has moved the pointer,
\* reports.json is a list with a record whose detailHref is the run's
\* dated folder, and the master page has been rendered with it.
C27_IndexBeforePointer ==
  (lastdump # at_start.lastdump \/ (pc = "exited" /\ outcome = "success")) =>
     /\ NameOf(lastdump) = loc.new_name
     /\ reports.kind = "list"
     /\ RecordsOfDay(reports.recs, loc.day) # {}
     /\ master.exists
     /\ master.cards = reports.recs

\* the first run of an installation without an index
C27_Witness ==
  /\ pc = "exited" /\ outcome = "success" /\ nruns = 1
  /\ at_start.reports.kind = "absent"
  /\ reports.recs = <<entry_of(loc.day, loc.old_name, loc.new_name)>>
  /\ lastdump = <<loc.new_name, NL>>

\* the current run has rewritten reports.json
IndexRewritten ==
  pc \in {"master", "mail", "pointer"} \/ (pc = "exited" /\ outcome = "success")

\* C28: when a run rewrites an index of distinct detailHrefs that holds a
\* record written by an earlier run for the same dated folder, that
\* record is the only record of the folder afterwards: the record of the
\* current run is dropped, and title and dump labels stay the first run's.
C28_FirstRecordOfDayKept ==
  (IndexRewritten /\ UniqueHref(at_start.reports.recs)) =>
     \A i \in 1..Len(at_start.reports.recs) :
        LET rec == at_start.reports.recs[i]
        IN (rec.detailHref = loc.day /\ rec.runDate = loc.day) =>
              { reports.recs[j] : j \in RecordsOfDay(reports.recs, loc.day) } = {rec}

\* the second run of the day compared another pair; the record did not change
C28_Witness ==
  /\ pc = "exited" /\ outcome = "success" /\ nruns = 2
  /\ loc.old_name = "prod_62.0_1stJan2025"
  /\ reports = at_start.reports
  /\ \E j \in RecordsOfDay(reports.recs, loc.day) :
        /\ reports.recs[j].oldDumpLabel = pretty_label("scratch")
        /\ reports.recs[j].title # title_from_names(loc.old_name, loc.new_name)

\* C24 as stated: after a beautify call on the page the compare tool
\* produced (no file operation failing), codecomp.html holds a generated
\* page and codecomp_raw.html beside it holds the tool's page unchanged.
C24_RawKeptBesideSummary ==
  (loc.calls = 1 /\ loc.before \in RawPages /\ ~loc.failed) =>
     /\ artifacts[loc.path] \notin RawPages \cup {Absent}
     /\ artifacts[with_name_raw(loc.path)] = loc.before

\* C29 as stated: after two or more calls of codecomp_mod.py's function on
\* the page of the compare tool, with no fresh page between them and no
\* file operation failing, codecomp_raw.html still holds the tool's page.
C29_RawSurvivesSecondCall ==
  (loc.calls >= 2 /\ loc.callers = {"codecomp_mod"} /\ loc.original \in RawPages /\ ~loc.failed) =>
     artifacts[with_name_raw(loc.path)] = loc.original

\* number of positions of a page holding the token t
CountOf(html, t) == Cardinality({ i \in 1..Len(html) : html[i] = t })

\* the page the calls started on exists, has one </head> and no skin block
OneHeadUnstyled ==
  /\ loc.first.exists
  /\ CountOf(loc.first.html, HEAD_CLOSE) = 1
  /\ ~has_skin(loc.first.html)

\* C30: on a page with one </head> and no skin block yet, the first call of
\* inject_skin returns True and inserts the block before </head>, every
\* later call returns False and leaves the file as it was, and after any
\* number of calls the page holds exactly one skin-codecomp block.
C30_InjectSkinIdempotent ==
  (pc = "skin" /\ OneHeadUnstyled /\ Len(loc.returns) >= 1) =>
     /\ loc.returns[1] = TRUE
     /\ \A i \in 2..Len(loc.returns) : loc.returns[i] = FALSE
     /\ Len(loc.returns) >= 2 => artifacts = loc.before
     /\ artifacts.html = replace_head(loc.first.html)
     /\ CountOf(artifacts.html, CSS) = 1
     /\ CountOf(artifacts.html, HEAD_CLOSE) = 1

C30_Witness ==
  /\ pc = "skin"
  /\ OneHeadUnstyled
  /\ loc.returns = <<TRUE, FALSE, FALSE>>
  /\ CountOf(artifacts.html, CSS) = 1
  /\ artifacts.html # loc.first.html

=============================================================================
